---- MODULE Spec2Model ----
(***************************************************************************)
(* Model of the tachograph driver card reader (src/src/main.rs).           *)
(*                                                                         *)
(* Bytes are integers 0..255.  A Rust String is modelled as the sequence   *)
(* of its Unicode scalar values (so "DOE" is <<68, 79, 69>>).  A Rust      *)
(* Result is a record [ok, val, err].                                      *)
(***************************************************************************)
EXTENDS Integers, Sequences, FiniteSets, TLC

VARIABLES
    pc,         \* position of main (or of the function under application)
    exchanges,  \* every call of card.transmit so far: [apdu, result]
    stdout,     \* lines printed with println!: [label, value]
    stderr,     \* lines printed with eprintln!
    outcome,    \* how the process ended: [kind, err]
    response,   \* the response main is currently holding
    call        \* arguments and result of the function under application

vars == <<pc, exchanges, stdout, stderr, outcome, response, call>>

(***************************************************************************)
(* Results                                                                 *)
(***************************************************************************)
Ok(v) == [ok |-> TRUE, val |-> v, err |-> "none"]

Err(e) == [ok |-> FALSE, val |-> <<>>, err |-> e]

(***************************************************************************)
(* Program constants                                                       *)
(***************************************************************************)
SELECT_DF_COMMAND == <<0, 164, 4, 12, 6>>

SELECT_EF_UNDER_DF_COMMAND == <<0, 164, 2, 12, 2>>

READ_BINARY_COMMAND == <<0, 176>>

TACHOGRAPH_DF == <<255, 84, 65, 67, 72, 79>>

TACHOGRAPH_GEN2_DF == <<255, 83, 77, 82, 68, 84>>

TACHOGRAPH_IDENTIFICATION_EF == <<5, 32>>

read_card_identification_apdu == <<0, 176, 0, 0, 65>>

read_card_holder_identification_apdu_at_zero == <<0, 176, 0, 0, 78>>

read_card_holder_identification_apdu == <<0, 176, 0, 65, 78>>

(***************************************************************************)
(* Sequence helpers                                                        *)
(***************************************************************************)
Prefix(s, n) == SubSeq(s, 1, IF n < Len(s) THEN n ELSE Len(s))

Repeat(b, n) == [i \in 1..n |-> b]

PadTo(s, b, n) == s \o Repeat(b, n - Len(s))

(***************************************************************************)
(* take_n: the first n bytes of data and the rest, or an error when data   *)
(* is shorter than n.                                                      *)
(***************************************************************************)
split_at(data, n) == <<SubSeq(data, 1, n), SubSeq(data, n + 1, Len(data))>>

take_n_strict(n, data) ==
    IF Len(data) <= n
    THEN Err("Data is too short")
    ELSE Ok(split_at(data, n))

take_n_clamped(n, data) ==
    Ok(split_at(data, IF n < Len(data) THEN n ELSE Len(data)))

take_n(n, data) ==
    IF Len(data) < n
    THEN Err("Data is too short")
    ELSE Ok(split_at(data, n))

(***************************************************************************)
(* Field codec: text                                                       *)
(*                                                                         *)
(* String::from_utf8 accepts exactly the well-formed UTF-8 byte strings    *)
(* and yields their scalar values; str::trim removes leading and trailing  *)
(* characters with the White_Space property.                               *)
(***************************************************************************)
IsCont(b) == b >= 128 /\ b <= 191

RECURSIVE Utf8Chars(_)
Utf8Chars(b) ==
    IF Len(b) = 0 THEN Ok(<<>>)
    ELSE LET b0 == b[1]
             n  == IF b0 < 128 THEN 1
                   ELSE IF b0 >= 194 /\ b0 <= 223 THEN 2
                   ELSE IF b0 >= 224 /\ b0 <= 239 THEN 3
                   ELSE IF b0 >= 240 /\ b0 <= 244 THEN 4
                   ELSE 0
             wellFormed ==
                 /\ n > 0
                 /\ Len(b) >= n
                 /\ \A i \in 2..n : IsCont(b[i])
                 /\ (b0 = 224 => b[2] >= 160)
                 /\ (b0 = 237 => b[2] <= 159)
                 /\ (b0 = 240 => b[2] >= 144)
                 /\ (b0 = 244 => b[2] <= 143)
         IN  IF ~wellFormed THEN Err("Utf8Error")
             ELSE LET cp == CASE n = 1 -> b0
                              [] n = 2 -> (b0 - 192) * 64 + (b[2] - 128)
                              [] n = 3 -> (b0 - 224) * 4096 + (b[2] - 128) * 64
                                          + (b[3] - 128)
                              [] n = 4 -> (b0 - 240) * 262144 + (b[2] - 128) * 4096
                                          + (b[3] - 128) * 64 + (b[4] - 128)
                      rest == Utf8Chars(SubSeq(b, n + 1, Len(b)))
                  IN  IF rest.ok THEN Ok(<<cp>> \o rest.val) ELSE rest

from_utf8(bytes) == Utf8Chars(bytes)

is_whitespace(c) ==
    \/ c >= 9 /\ c <= 13
    \/ c \in {32, 133, 160, 5760, 8232, 8233, 8239, 8287, 12288}
    \/ c >= 8192 /\ c <= 8202

RECURSIVE trim_start(_)
trim_start(s) ==
    IF Len(s) > 0 /\ is_whitespace(s[1]) THEN trim_start(Tail(s)) ELSE s

RECURSIVE trim_end(_)
trim_end(s) ==
    IF Len(s) > 0 /\ is_whitespace(s[Len(s)])
    THEN trim_end(SubSeq(s, 1, Len(s) - 1))
    ELSE s

trim_only_end(s) == trim_end(s)

trim(s) == trim_end(trim_start(s))

(***************************************************************************)
(* Field codec: BCD                                                        *)
(*                                                                         *)
(* main formats each birth-date byte as eight binary digits and hands the  *)
(* digit string to bcdstring_from_byte_string, which parses every group of *)
(* four characters as a base-2 number and prints that number in decimal.   *)
(***************************************************************************)
Pow2(k) == IF k = 0 THEN 1 ELSE IF k = 1 THEN 2 ELSE IF k = 2 THEN 4
           ELSE IF k = 3 THEN 8 ELSE IF k = 4 THEN 16 ELSE IF k = 5 THEN 32
           ELSE IF k = 6 THEN 64 ELSE 128

format_08b_lsb_first(byte) == [i \in 1..8 |-> 48 + ((byte \div Pow2(i - 1)) % 2)]

format_08b(byte) == [i \in 1..8 |-> 48 + ((byte \div Pow2(8 - i)) % 2)]

RECURSIVE chunks(_, _)
chunks(s, k) ==
    IF Len(s) = 0 THEN <<>>
    ELSE IF Len(s) <= k THEN <<s>>
    ELSE <<SubSeq(s, 1, k)>> \o chunks(SubSeq(s, k + 1, Len(s)), k)

RECURSIVE BinaryValue(_)
BinaryValue(digits) ==
    IF Len(digits) = 0 THEN 0
    ELSE 2 * BinaryValue(SubSeq(digits, 1, Len(digits) - 1))
         + (digits[Len(digits)] - 48)

from_str_radix_2(digits) ==
    IF Len(digits) = 0 THEN Err("ParseIntError: empty")
    ELSE IF \E i \in 1..Len(digits) : digits[i] \notin {48, 49}
    THEN Err("ParseIntError: invalid digit")
    ELSE IF BinaryValue(digits) > 255 THEN Err("ParseIntError: overflow")
    ELSE Ok(BinaryValue(digits))

RECURSIVE to_string(_)
to_string(v) ==
    IF v < 10 THEN <<48 + v>> ELSE to_string(v \div 10) \o <<48 + (v % 10)>>

RECURSIVE JoinDigits(_)
JoinDigits(groups) ==
    IF Len(groups) = 0 THEN Ok(<<>>)
    ELSE LET parsed == from_str_radix_2(groups[1])
             rest   == JoinDigits(Tail(groups))
         IN  IF ~parsed.ok THEN parsed
             ELSE IF ~rest.ok THEN rest
             ELSE Ok(to_string(parsed.val) \o rest.val)

bcdstring_from_byte_string(data) == JoinDigits(chunks(data, 4))

(***************************************************************************)
(* APDU builder                                                            *)
(***************************************************************************)
select_df_apdu(df) == SELECT_DF_COMMAND \o df

select_ef_apdu(ef) == SELECT_EF_UNDER_DF_COMMAND \o ef

read_binary_apdu(offset, length) == READ_BINARY_COMMAND \o <<offset, length>>

(***************************************************************************)
(* Transport adapter: transmit_apdu hands the command to card.transmit and *)
(* returns the response, or prints a message and returns the error it got. *)
(***************************************************************************)
transmit_apdu_ignoring_errors(r) == Ok(r.val)

transmit_apdu_generic_error(r) == IF r.ok THEN Ok(r.val) ELSE Err("CommError")

transmit_apdu(r) == IF r.ok THEN Ok(r.val) ELSE Err(r.err)

Transmit(apdu, r) ==
    /\ exchanges' = Append(exchanges, [apdu |-> apdu, result |-> r])
    /\ stderr' = IF r.ok THEN stderr
                 ELSE Append(stderr, "Failed to transmit APDU")

(***************************************************************************)
(* Record decoding as main does it.  Every unwrap is a point where main    *)
(* panics with the error it unwraps; nothing is printed before the last    *)
(* unwrap of a record has succeeded.                                       *)
(***************************************************************************)
CardIdentification(resp) ==
    LET t1 == take_n(1, resp)
    IN  IF ~t1.ok THEN t1
        ELSE LET t2 == take_n(16, t1.val[2])
             IN  IF ~t2.ok THEN t2
                 ELSE from_utf8(t2.val[1])

BirthDate(birth_date) ==
    [year  |-> bcdstring_from_byte_string(
                   format_08b(birth_date[1]) \o format_08b(birth_date[2])),
     month |-> bcdstring_from_byte_string(format_08b(birth_date[3])),
     day   |-> bcdstring_from_byte_string(format_08b(birth_date[4]))]

CardHolderIdentification(resp) ==
    LET t1 == take_n(72, resp)
    IN  IF ~t1.ok THEN t1
        ELSE
    LET card_holder_name == t1.val[1]
        card_holder_remaining == t1.val[2]
        t2 == take_n(36, card_holder_name)
    IN  IF ~t2.ok THEN t2
        ELSE
    LET last_name_bytes == t2.val[1]
        t3 == take_n(36, t2.val[2])
    IN  IF ~t3.ok THEN t3
        ELSE
    LET first_name_bytes == t3.val[1]
        t4 == take_n(4, card_holder_remaining)
    IN  IF ~t4.ok THEN t4
        ELSE
    LET birth_date == t4.val[1]
        t5 == take_n(2, t4.val[2])
    IN  IF ~t5.ok THEN t5
        ELSE
    LET first_name == from_utf8(first_name_bytes)
        last_name == from_utf8(last_name_bytes)
        preferred_language == from_utf8(t5.val[1])
        date == BirthDate(birth_date)
    IN  IF ~first_name.ok THEN first_name
        ELSE IF ~last_name.ok THEN last_name
        ELSE IF ~preferred_language.ok THEN preferred_language
        ELSE IF ~date.year.ok THEN date.year
        ELSE IF ~date.month.ok THEN date.month
        ELSE IF ~date.day.ok THEN date.day
        ELSE Ok([first_name |-> trim(first_name.val),
                 last_name |-> trim(last_name.val),
                 year |-> date.year.val,
                 month |-> date.month.val,
                 day |-> date.day.val,
                 preferred_language |-> preferred_language.val])

(***************************************************************************)
(* What the environment can do: the PC/SC calls before the read sequence   *)
(* and the card's answers to each command.                                 *)
(***************************************************************************)
TransportErrors == {"RemovedCard", "ReaderUnavailable", "CommError"}

Readers == {<<>>, <<<<82, 49>>>>}

StatusOk == <<144, 0>>

StatusFileNotFound == <<106, 130>>

SelectResults == {Ok(StatusOk), Ok(StatusFileNotFound)} \cup {Err(e) : e \in TransportErrors}

CardNumbers ==
    { <<49, 50, 51, 52, 53, 54, 55, 56, 57, 48, 49, 50, 51, 52, 53, 54>>,
      <<32, 50, 51, 52, 53, 54, 55, 56, 57, 48, 49, 50, 51, 52, 32, 32>>,
      <<49, 50, 51, 52, 53, 54, 55, 56, 57, 48, 49, 50, 51, 52, 53, 255>> }

IdentificationLengths == {0, 1, 16, 17, 65, 67}

IdentificationResponses ==
    { Prefix(PadTo(<<1>> \o num, 0, 65) \o StatusOk, n) :
        num \in CardNumbers, n \in IdentificationLengths }

IdentificationResults ==
    {Ok(r) : r \in IdentificationResponses} \cup {Err(e) : e \in TransportErrors}

Surnames ==
    { PadTo(<<68, 79, 69>>, 32, 36),
      <<32, 32>> \o PadTo(<<68, 79, 69>>, 32, 34),
      PadTo(<<68, 79, 69>>, 0, 36),
      PadTo(<<77, 195, 132, 75, 73>>, 32, 36),
      PadTo(<<68, 255>>, 32, 36) }

FirstNames ==
    { PadTo(<<74, 79, 72, 78>>, 32, 36),
      Repeat(65, 36),
      PadTo(<<74, 192, 128>>, 32, 36) }

BirthDates ==
    { <<25, 133, 3, 21>>,
      <<32, 1, 18, 49>>,
      <<153, 153, 153, 153>>,
      <<26, 133, 3, 21>>,
      <<25, 133, 15, 240>> }

Languages == { <<102, 105>>, <<101, 32>>, <<32, 101>>, <<255, 105>> }

HolderLengths == {0, 35, 71, 72, 75, 77, 78, 80}

HolderResponses ==
    { Prefix(sn \o fn \o bd \o lang \o StatusOk, n) :
        sn \in Surnames, fn \in FirstNames, bd \in BirthDates,
        lang \in Languages, n \in HolderLengths }

HolderResults ==
    {Ok(r) : r \in HolderResponses} \cup {Err(e) : e \in TransportErrors}

(***************************************************************************)
(* main                                                                    *)
(***************************************************************************)
Running == [kind |-> "running", err |-> "none"]

NoCall == [fn |-> "main", args |-> <<>>, result |-> Ok(<<>>)]

Init ==
    /\ pc = "establish"
    /\ exchanges = <<>>
    /\ stdout = <<>>
    /\ stderr = <<>>
    /\ outcome = Running
    /\ response = <<>>
    /\ call = NoCall

Exit1(msg) ==
    /\ stderr' = Append(stderr, msg)
    /\ outcome' = [kind |-> "exit", err |-> "1"]
    /\ pc' = "exited"

ReturnErr(e) ==
    /\ outcome' = [kind |-> "err", err |-> e]
    /\ pc' = "exited"

Panic(e) ==
    /\ outcome' = [kind |-> "panic", err |-> e]
    /\ pc' = "exited"

Println(label, value) == [label |-> label, value |-> value]

EstablishContext ==
    /\ pc = "establish"
    /\ \E ok \in BOOLEAN :
         IF ok
         THEN pc' = "list_readers" /\ UNCHANGED <<stderr, outcome>>
         ELSE Exit1("Failed to establish context")
    /\ UNCHANGED <<exchanges, stdout, response, call>>

ListReaders ==
    /\ pc = "list_readers"
    /\ \E ok \in BOOLEAN :
         IF ok
         THEN pc' = "next_reader" /\ UNCHANGED <<stderr, outcome>>
         ELSE Exit1("Failed to list readers")
    /\ UNCHANGED <<exchanges, stdout, response, call>>

NextReader ==
    /\ pc = "next_reader"
    /\ \E readers \in Readers :
         IF Len(readers) > 0
         THEN /\ pc' = "connect"
              /\ stdout' = Append(stdout, Println("Using reader", readers[1]))
              /\ UNCHANGED <<stderr, outcome>>
         ELSE /\ Exit1("No readers are connected")
              /\ UNCHANGED stdout
    /\ UNCHANGED <<exchanges, response, call>>

Connect ==
    /\ pc = "connect"
    /\ \E r \in {"Ok", "NoSmartcard", "Other"} :
         CASE r = "Ok" -> pc' = "select_df" /\ UNCHANGED <<stderr, outcome>>
           [] r = "NoSmartcard" -> Exit1("A smartcard is not present in the reader")
           [] OTHER -> Exit1("Failed to connect to card")
    /\ UNCHANGED <<exchanges, stdout, response, call>>

SelectDf ==
    /\ pc = "select_df"
    /\ \E r \in SelectResults :
         /\ Transmit(select_df_apdu(TACHOGRAPH_DF), r)
         /\ LET res == transmit_apdu(r)
            IN  IF res.ok
                THEN pc' = "select_ef" /\ UNCHANGED outcome
                ELSE ReturnErr(res.err)
    /\ UNCHANGED <<stdout, response, call>>

SelectEfUnderDf ==
    /\ pc = "select_ef"
    /\ \E r \in SelectResults :
         /\ Transmit(select_ef_apdu(TACHOGRAPH_IDENTIFICATION_EF), r)
         /\ LET res == transmit_apdu(r)
            IN  IF res.ok
                THEN pc' = "read_identification" /\ UNCHANGED outcome
                ELSE ReturnErr(res.err)
    /\ UNCHANGED <<stdout, response, call>>

ReadCardIdentification ==
    /\ pc = "read_identification"
    /\ \E r \in IdentificationResults :
         /\ Transmit(read_card_identification_apdu, r)
         /\ LET res == transmit_apdu(r)
            IN  IF res.ok
                THEN /\ pc' = "decode_identification"
                     /\ response' = res.val
                     /\ UNCHANGED outcome
                ELSE ReturnErr(res.err) /\ UNCHANGED response
    /\ UNCHANGED <<stdout, call>>

DecodeCardIdentification ==
    /\ pc = "decode_identification"
    /\ LET driver_card_number == CardIdentification(response)
       IN  IF driver_card_number.ok
           THEN /\ stdout' = Append(stdout, Println("Driver card number",
                                                    driver_card_number.val))
                /\ pc' = "read_holder"
                /\ UNCHANGED outcome
           ELSE Panic(driver_card_number.err) /\ UNCHANGED stdout
    /\ UNCHANGED <<exchanges, stderr, response, call>>

ReadCardHolderIdentification ==
    /\ pc = "read_holder"
    /\ \E r \in HolderResults :
         /\ Transmit(read_card_holder_identification_apdu, r)
         /\ LET res == transmit_apdu(r)
            IN  IF res.ok
                THEN /\ pc' = "decode_holder"
                     /\ response' = res.val
                     /\ UNCHANGED outcome
                ELSE ReturnErr(res.err) /\ UNCHANGED response
    /\ UNCHANGED <<stdout, call>>

DecodeCardHolderIdentification ==
    /\ pc = "decode_holder"
    /\ LET holder == CardHolderIdentification(response)
       IN  IF holder.ok
           THEN /\ stdout' = stdout \o
                      << Println("First name", holder.val.first_name),
                         Println("Last name", holder.val.last_name),
                         Println("Year", holder.val.year),
                         Println("month", holder.val.month),
                         Println("day", holder.val.day),
                         Println("Preferred language",
                                 holder.val.preferred_language) >>
                /\ pc' = "return"
                /\ UNCHANGED outcome
           ELSE Panic(holder.err) /\ UNCHANGED stdout
    /\ UNCHANGED <<exchanges, stderr, response, call>>

ReturnOk ==
    /\ pc = "return"
    /\ outcome' = [kind |-> "ok", err |-> "none"]
    /\ pc' = "exited"
    /\ UNCHANGED <<exchanges, stdout, stderr, response, call>>

Next ==
    \/ EstablishContext
    \/ ListReaders
    \/ NextReader
    \/ Connect
    \/ SelectDf
    \/ SelectEfUnderDf
    \/ ReadCardIdentification
    \/ DecodeCardIdentification
    \/ ReadCardHolderIdentification
    \/ DecodeCardHolderIdentification
    \/ ReturnOk

Spec == Init /\ [][Next]_vars

(***************************************************************************)
(* The functions applied on their own, to arguments drawn from bounded     *)
(* sets: pc is "call" before the application and "returned" after it.      *)
(***************************************************************************)
MaxLen == 4

MaxByte == 2

MaxSelectorLen == 3

Bytes == 0..255

SeqsUpTo(S, n) == UNION {[1..k -> S] : k \in 0..n}

Calls(fn, argss) == {[fn |-> fn, args |-> a, result |-> Ok(<<>>)] : a \in argss}

InitCall(calls) ==
    /\ pc = "call"
    /\ call \in calls
    /\ exchanges = <<>>
    /\ stdout = <<>>
    /\ stderr = <<>>
    /\ outcome = Running
    /\ response = <<>>

Return(result) ==
    /\ call' = [call EXCEPT !.result = result]
    /\ pc' = "returned"

\* take_n(n, data)
TakeNCalls ==
    Calls("take_n", (0..(MaxLen + 2)) \X SeqsUpTo(0..MaxByte, MaxLen))

InitTakeN == InitCall(TakeNCalls)

ApplyTakeN ==
    /\ pc = "call"
    /\ call.fn = "take_n"
    /\ Return(take_n(call.args[1], call.args[2]))
    /\ UNCHANGED <<exchanges, stdout, stderr, outcome, response>>

NextTakeN == ApplyTakeN

SpecTakeN == InitTakeN /\ [][NextTakeN]_vars

\* bcdstring_from_byte_string on the binary digits of one byte (month, day)
\* or of two bytes (year), as main formats them
BcdCalls ==
    Calls("bcdstring_from_byte_string", SeqsUpTo(Bytes, 2) \ {<<>>})

InitBcd == InitCall(BcdCalls)

FormatBytes(bytes) ==
    IF Len(bytes) = 1 THEN format_08b(bytes[1])
    ELSE format_08b(bytes[1]) \o format_08b(bytes[2])

ApplyBcd ==
    /\ pc = "call"
    /\ call.fn = "bcdstring_from_byte_string"
    /\ Return(bcdstring_from_byte_string(FormatBytes(call.args)))
    /\ UNCHANGED <<exchanges, stdout, stderr, outcome, response>>

NextBcd == ApplyBcd

SpecBcd == InitBcd /\ [][NextBcd]_vars

\* the three transmit_*_apdu helpers, next to the read sequence itself
Selectors ==
    {TACHOGRAPH_DF, TACHOGRAPH_GEN2_DF, TACHOGRAPH_IDENTIFICATION_EF}
    \cup (SeqsUpTo({0, 63, 255}, MaxSelectorLen) \ {<<>>})

ApduCalls ==
    Calls("transmit_select_df_apdu", Selectors)
    \cup Calls("transmit_select_ef_under_df_apdu", Selectors)
    \cup Calls("transmit_read_binary_apdu", Bytes \X Bytes)

HelperResults == {Ok(StatusOk), Err("CommError")}

InitApdu == Init \/ InitCall(ApduCalls)

CallSelectDf ==
    /\ pc = "call"
    /\ call.fn = "transmit_select_df_apdu"
    /\ \E r \in HelperResults :
         /\ Transmit(select_df_apdu(call.args), r)
         /\ Return(transmit_apdu(r))
    /\ UNCHANGED <<stdout, outcome, response>>

CallSelectEfUnderDf ==
    /\ pc = "call"
    /\ call.fn = "transmit_select_ef_under_df_apdu"
    /\ \E r \in HelperResults :
         /\ Transmit(select_ef_apdu(call.args), r)
         /\ Return(transmit_apdu(r))
    /\ UNCHANGED <<stdout, outcome, response>>

CallReadBinary ==
    /\ pc = "call"
    /\ call.fn = "transmit_read_binary_apdu"
    /\ \E r \in HelperResults :
         /\ Transmit(read_binary_apdu(call.args[1], call.args[2]), r)
         /\ Return(transmit_apdu(r))
    /\ UNCHANGED <<stdout, outcome, response>>

NextApdu ==
    \/ Next
    \/ CallSelectDf
    \/ CallSelectEfUnderDf
    \/ CallReadBinary

SpecApdu == InitApdu /\ [][NextApdu]_vars

(***************************************************************************)
(* Properties                                                              *)
(***************************************************************************)
Returned(fn) == pc = "returned" /\ call.fn = fn

\* C6: for n <= length(data), take_n(n, data) succeeds with a head of n bytes
\* and a tail of length(data) - n bytes, and head followed by tail is data.
C6_TakeNSplits ==
    (Returned("take_n") /\ call.args[1] <= Len(call.args[2])) =>
        /\ call.result.ok
        /\ Len(call.result.val) = 2
        /\ Len(call.result.val[1]) = call.args[1]
        /\ Len(call.result.val[2]) = Len(call.args[2]) - call.args[1]
        /\ call.result.val[1] \o call.result.val[2] = call.args[2]

C6_Witness ==
    /\ Returned("take_n")
    /\ call.args[1] = Len(call.args[2])
    /\ call.args[1] = MaxLen
    /\ call.result.ok
    /\ call.result.val[2] = <<>>

\* C7: for n > length(data), take_n(n, data) is the "Data is too short" error
\* and carries no head and no tail.
C7_TakeNTooShort ==
    (Returned("take_n") /\ call.args[1] > Len(call.args[2])) =>
        /\ ~call.result.ok
        /\ call.result.err = "Data is too short"
        /\ call.result.val = <<>>

C7_Witness ==
    /\ Returned("take_n")
    /\ Len(call.args[2]) > 0
    /\ call.args[1] = Len(call.args[2]) + 1
    /\ ~call.result.ok

\* C3: BCD decoding of bytes with a nibble from 0xA to 0xF fails with
\* InvalidBcdDigit and yields no digit string.
Nibbles(bytes) ==
    UNION {{bytes[i] \div 16, bytes[i] % 16} : i \in 1..Len(bytes)}

C3_InvalidBcdDigitRejected ==
    (Returned("bcdstring_from_byte_string")
     /\ \E d \in Nibbles(call.args) : d >= 10) =>
        /\ ~call.result.ok
        /\ call.result.err = "InvalidBcdDigit"

\* C5: the SELECT commands are the 4-byte header, one byte holding the length
\* of the selector, and the selector.
SelectHeader(fn) ==
    IF fn = "transmit_select_df_apdu" THEN <<0, 164, 4, 12>> ELSE <<0, 164, 2, 12>>

C5_SelectLengthByte ==
    (pc = "returned"
     /\ call.fn \in {"transmit_select_df_apdu", "transmit_select_ef_under_df_apdu"}) =>
        /\ Len(exchanges) = 1
        /\ exchanges[1].apdu
             = SelectHeader(call.fn) \o <<Len(call.args)>> \o call.args

(***************************************************************************)
(* Properties of the read sequence                                         *)
(***************************************************************************)
\* Command structure per ISO/IEC 7816-4: CLA INS P1 P2, then Lc and data
\* (SELECT) or Le (READ BINARY).
ApduKind(apdu) ==
    IF Len(apdu) >= 4 /\ apdu[1] = 0 /\ apdu[2] = 164 /\ apdu[3] = 4 THEN "SELECT DF"
    ELSE IF Len(apdu) >= 4 /\ apdu[1] = 0 /\ apdu[2] = 164 /\ apdu[3] = 2 THEN "SELECT EF"
    ELSE IF Len(apdu) >= 4 /\ apdu[1] = 0 /\ apdu[2] = 176 THEN "READ BINARY"
    ELSE "other"

SelectData(apdu) == SubSeq(apdu, 6, Len(apdu))

ReadOffset(apdu) == apdu[3] * 256 + apdu[4]

ReadSequence == <<"SELECT DF", "SELECT EF", "READ BINARY", "READ BINARY">>

TransmitsBefore ==
    [p \in {"establish", "list_readers", "next_reader", "connect", "select_df",
            "select_ef", "read_identification", "decode_identification",
            "read_holder", "decode_holder", "return"} |->
        CASE p = "select_ef" -> 1
          [] p = "read_identification" -> 2
          [] p \in {"decode_identification", "read_holder"} -> 3
          [] p \in {"decode_holder", "return"} -> 4
          [] OTHER -> 0]

Done == outcome.kind = "ok"

\* C1: the commands handed to the transport are SELECT DF (tachograph
\* application), SELECT EF (identification file), READ BINARY of the card
\* identification, READ BINARY of the card holder identification, in this
\* order, one per transition, each only after all earlier ones succeeded.
C1_ReadSequenceOrder ==
    /\ Len(exchanges) <= 4
    /\ \A i \in 1..Len(exchanges) : ApduKind(exchanges[i].apdu) = ReadSequence[i]
    /\ \A i \in 1..(Len(exchanges) - 1) : exchanges[i].result.ok
    /\ Len(exchanges) >= 1 => SelectData(exchanges[1].apdu) = <<255, 84, 65, 67, 72, 79>>
    /\ Len(exchanges) >= 2 => SelectData(exchanges[2].apdu) = <<5, 32>>
    /\ Len(exchanges) >= 3 => ReadOffset(exchanges[3].apdu) = 0
    /\ Len(exchanges) >= 4 => ReadOffset(exchanges[4].apdu) = 65
    /\ pc # "exited" => Len(exchanges) = TransmitsBefore[pc]
    /\ Done => Len(exchanges) = 4 /\ exchanges[4].result.ok

C1_Witness == Done /\ Len(exchanges) = 4

\* C2: a failed transmit or a failed decode ends the run at that step: the
\* failed command is the last one transmitted, no command is transmitted
\* twice, Done is not reached, and a transport error is returned as the
\* error value the transport produced.
IdentificationDecodable(resp) ==
    Len(resp) >= 17 /\ from_utf8(SubSeq(resp, 2, 17)).ok

HolderDecodable(resp) ==
    /\ Len(resp) >= 78
    /\ from_utf8(SubSeq(resp, 1, 36)).ok
    /\ from_utf8(SubSeq(resp, 37, 72)).ok
    /\ from_utf8(SubSeq(resp, 77, 78)).ok

C2_FailFast ==
    /\ \A i \in 1..Len(exchanges) :
         ~exchanges[i].result.ok =>
            /\ i = Len(exchanges)
            /\ pc = "exited"
            /\ outcome = [kind |-> "err", err |-> exchanges[i].result.err]
    /\ \A i, j \in 1..Len(exchanges) :
         i # j => exchanges[i].apdu # exchanges[j].apdu
    /\ (Len(exchanges) = 3 /\ exchanges[3].result.ok
        /\ ~IdentificationDecodable(exchanges[3].result.val)
        /\ pc # "decode_identification") =>
            pc = "exited" /\ outcome.kind \notin {"ok", "running"}
    /\ Len(exchanges) = 4 => IdentificationDecodable(exchanges[3].result.val)
    /\ (Len(exchanges) = 4 /\ exchanges[4].result.ok
        /\ ~HolderDecodable(exchanges[4].result.val)
        /\ pc # "decode_holder") =>
            pc = "exited" /\ outcome.kind \notin {"ok", "running"}
    /\ Done => \A i \in 1..Len(exchanges) : exchanges[i].result.ok

C2_Witness ==
    /\ pc = "exited"
    /\ Len(exchanges) = 4
    /\ exchanges[4].result = Err("RemovedCard")
    /\ outcome = [kind |-> "err", err |-> "RemovedCard"]

\* C8: a READ BINARY response shorter than its record (17 bytes for the card
\* identification, 78 for the card holder identification) ends the run with
\* the take_n error returned to the caller, and no field of the record printed.
RecordLength(i) == IF i = 3 THEN 17 ELSE 78

ShortResponse ==
    /\ Len(exchanges) \in {3, 4}
    /\ exchanges[Len(exchanges)].result.ok
    /\ Len(exchanges[Len(exchanges)].result.val) < RecordLength(Len(exchanges))

LinesBefore(i) == IF i = 3 THEN 1 ELSE 2

C8_TruncatedDataReturned ==
    (pc = "exited" /\ ShortResponse) =>
        /\ outcome = [kind |-> "err", err |-> "Data is too short"]
        /\ Len(stdout) = LinesBefore(Len(exchanges))

\* C4 (as stated): the READ BINARY commands of the read sequence are the four
\* bytes 00 B0 offset length, and so is what the builder makes of every
\* offset and length.
C4_ReadBinaryFourBytes ==
    /\ (call = NoCall /\ Len(exchanges) >= 3) => exchanges[3].apdu = <<0, 176, 0, 65>>
    /\ (call = NoCall /\ Len(exchanges) >= 4) => exchanges[4].apdu = <<0, 176, 65, 78>>
    /\ Returned("transmit_read_binary_apdu") =>
         exchanges[1].apdu = <<0, 176, call.args[1], call.args[2]>>

\* C4 (amended): the READ BINARY commands of the read sequence are the five
\* bytes 00 B0 00 00 41 and 00 B0 00 41 4E (a two-byte offset, then the
\* length); transmit_read_binary_apdu, which the read sequence does not use,
\* transmits 00 B0 offset length for every offset and length.
C4_ReadBinaryCommands ==
    /\ call = NoCall =>
         \A i \in 1..Len(exchanges) :
            ApduKind(exchanges[i].apdu) = "READ BINARY" =>
               \/ i = 3 /\ exchanges[i].apdu = <<0, 176, 0, 0, 65>>
               \/ i = 4 /\ exchanges[i].apdu = <<0, 176, 0, 65, 78>>
    /\ (call = NoCall /\ Len(exchanges) >= 3) =>
         ApduKind(exchanges[3].apdu) = "READ BINARY"
    /\ (call = NoCall /\ Len(exchanges) >= 4) =>
         ApduKind(exchanges[4].apdu) = "READ BINARY"
    /\ Returned("transmit_read_binary_apdu") =>
         /\ Len(exchanges) = 1
         /\ exchanges[1].apdu = <<0, 176, call.args[1], call.args[2]>>

C4_Witness ==
    /\ call = NoCall
    /\ Len(exchanges) = 4
    /\ exchanges[3].apdu = <<0, 176, 0, 0, 65>>
    /\ exchanges[4].apdu = <<0, 176, 0, 65, 78>>

(***************************************************************************)
(* Properties of the decoded records                                       *)
(***************************************************************************)
Printed(label) == \E i \in DOMAIN stdout : stdout[i].label = label

Value(label) ==
    stdout[CHOOSE i \in DOMAIN stdout : stdout[i].label = label].value

IdentificationResponse == exchanges[3].result.val

HolderResponse == exchanges[4].result.val

Text(bytes) == from_utf8(bytes).val

\* out is text without the whitespace at its two ends
Stripped(text, out) ==
    /\ out = <<>> \/ (~is_whitespace(out[1]) /\ ~is_whitespace(out[Len(out)]))
    /\ \E a \in 0..(Len(text) - Len(out)) :
         /\ out = SubSeq(text, a + 1, a + Len(out))
         /\ \A i \in 1..Len(text) :
              (i <= a \/ i > a + Len(out)) => is_whitespace(text[i])

NoPaddingAtEnds(s) == s = <<>> \/ (s[1] # 32 /\ s[Len(s)] # 32)

TextLabels ==
    {"Driver card number", "Last name", "First name", "Preferred language"}

\* C9 (as stated): the driver card number, the surname, the first name and
\* the preferred language are printed without leading or trailing spaces.
C9_AllTextFieldsStripped ==
    \A i \in DOMAIN stdout :
        stdout[i].label \in TextLabels => NoPaddingAtEnds(stdout[i].value)

\* C9 (amended): the surname and the first name are printed with leading and
\* trailing whitespace stripped; the driver card number and the preferred
\* language are printed as decoded, padding included.
C9_NamesStripped ==
    /\ Printed("Driver card number") =>
         Value("Driver card number") = Text(SubSeq(IdentificationResponse, 2, 17))
    /\ Printed("Last name") =>
         /\ Stripped(Text(SubSeq(HolderResponse, 1, 36)), Value("Last name"))
         /\ NoPaddingAtEnds(Value("Last name"))
    /\ Printed("First name") =>
         /\ Stripped(Text(SubSeq(HolderResponse, 37, 72)), Value("First name"))
         /\ NoPaddingAtEnds(Value("First name"))
    /\ Printed("Preferred language") =>
         Value("Preferred language") = Text(SubSeq(HolderResponse, 77, 78))

C9_Witness ==
    /\ Printed("Last name")
    /\ SubSeq(HolderResponse, 1, 36) = <<32, 32, 68, 79, 69>> \o Repeat(32, 31)
    /\ Value("Last name") = <<68, 79, 69>>
    /\ Value("Preferred language") = <<101, 32>>

\* C10: a card holder identification response of at least 78 bytes with BCD
\* birth-date nibbles gives the surname from bytes 0-35, the first name from
\* bytes 36-71, the birth date from bytes 72-75 (year of 4 digits, month of
\* 2, day of 2, most significant nibble first) and the preferred language
\* from bytes 76-77, whatever follows byte 77.
Digits(bytes) ==
    [i \in 1..(2 * Len(bytes)) |->
        48 + (IF i % 2 = 1 THEN bytes[(i + 1) \div 2] \div 16
                           ELSE bytes[i \div 2] % 16)]

HolderDecoded ==
    /\ call = NoCall
    /\ Len(exchanges) = 4
    /\ exchanges[4].result.ok
    /\ pc \notin {"decode_holder"}

C10_HolderRecordLayout ==
    (/\ HolderDecoded
     /\ Len(HolderResponse) >= 78
     /\ \A d \in Nibbles(SubSeq(HolderResponse, 73, 76)) : d <= 9
     /\ HolderDecodable(HolderResponse)) =>
        /\ outcome.kind \in {"running", "ok"}
        /\ Len(stdout) = 8
        /\ Stripped(Text(SubSeq(HolderResponse, 1, 36)), Value("Last name"))
        /\ Stripped(Text(SubSeq(HolderResponse, 37, 72)), Value("First name"))
        /\ Value("Year") = Digits(SubSeq(HolderResponse, 73, 74))
        /\ Value("month") = Digits(SubSeq(HolderResponse, 75, 75))
        /\ Value("day") = Digits(SubSeq(HolderResponse, 76, 76))
        /\ Value("Preferred language") = Text(SubSeq(HolderResponse, 77, 78))

C10_Witness ==
    /\ HolderDecoded
    /\ Len(HolderResponse) = 80
    /\ SubSeq(HolderResponse, 73, 76) = <<25, 133, 3, 21>>
    /\ Printed("Year")
    /\ Value("Year") = <<49, 57, 56, 53>>
    /\ Value("month") = <<48, 51>>
    /\ Value("day") = <<49, 53>>
    /\ Value("Last name") = <<68, 79, 69>>
    /\ Value("First name") = <<74, 79, 72, 78>>

====
